---------------------------- MODULE Spec2Model ----------------------------
(***************************************************************************)
(* Unified Bed Leveling (Marlin/src/feature/bedlevel/ubl/ubl.h): the mesh  *)
(* z_values, the grid geometry helpers and the Z correction look-ups of    *)
(* class unified_bed_leveling, as a state machine whose actions are calls  *)
(* of the class' static methods; and the G28 homing command                 *)
(* (Marlin/src/gcode/calibrate/G28.cpp), specified apart as SpecG28.       *)
(*                                                                         *)
(* Numbers.  A C float is modelled as a pair <<n, d>>:                     *)
(*   d > 0           the rational n/d in lowest terms,                     *)
(*   <<0, 0>>        NaN (the "undefined mesh point" sentinel),            *)
(*   <<1, 0>>, <<-1, 0>>   +infinity and -infinity.                        *)
(* The IEEE rules for NaN and the infinities are kept (NaN * 0 = NaN,      *)
(* x / 0 = +-inf, 0 / 0 = NaN, inf - inf = NaN).  Rounding of binary32 is  *)
(* not modelled: finite results are exact, and -0.0 is not told from 0.0.  *)
(***************************************************************************)
EXTENDS Integers, Sequences, FiniteSets, TLC

VARIABLES
  z_values,      \* bed_mesh_t z_values[GRID_MAX_POINTS_X][GRID_MAX_POINTS_Y]
  raise_defined, \* build configuration: #ifdef UBL_Z_RAISE_WHEN_OFF_MESH
  call,          \* the call in progress on the class: operation, arguments, result
  reads,         \* the elements z_values[a][b] the call in progress has read: {<<a, b>>}
  config,               \* build configuration of G28.cpp: the #if options
  axis_homed,           \* the axes whose axis_homed bit is set
  axis_known_position,  \* the axes whose axis_known_position bit is set
  leveling_active,      \* planner.leveling_active
  active_extruder,      \* the active tool
  endstops_enabled,     \* endstops: enabled
  feedrate_percentage,  \* feedrate scaling
  planner_settings,     \* planner.settings.max_acceleration_mm_per_s2 and planner.max_jerk, X and Y
  current_z,            \* current_position[Z_AXIS]
  g28_call,             \* the G28 command in progress: its parameters
  log                   \* the calls the G28 in progress has made, in order

ubl_vars == <<z_values, raise_defined, call, reads>>

\* the machine state G28 works on
machine_vars == <<axis_homed, axis_known_position, leveling_active, active_extruder,
                  endstops_enabled, feedrate_percentage, planner_settings, current_z>>

g28_vars == <<config, machine_vars, g28_call, log>>

vars == <<ubl_vars, g28_vars>>

----------------------------------------------------------------------------
(* float arithmetic *)

NaN == <<0, 0>>

isnan(a) == a = NaN

IsFinite(a) == a[2] > 0

Abs(n) == IF n < 0 THEN -n ELSE n

Sgn(n) == IF n < 0 THEN -1 ELSE IF n > 0 THEN 1 ELSE 0

RECURSIVE GCD(_, _)
GCD(a, b) == IF b = 0 THEN a ELSE GCD(b, a % b)

\* the float n/d, d # 0, in lowest terms with a positive denominator
Norm(n, d) ==
  LET g == GCD(Abs(n), Abs(d))
      s == IF d < 0 THEN -1 ELSE 1
  IN  <<(s * n) \div g, (s * d) \div g>>

\* an int converted to float
F(n) == <<n, 1>>

FNeg(a) == <<-a[1], a[2]>>

FAdd(a, b) ==
  IF IsFinite(a) /\ IsFinite(b) THEN Norm(a[1] * b[2] + b[1] * a[2], a[2] * b[2])
  ELSE IF isnan(a) \/ isnan(b) THEN NaN
  ELSE IF ~IsFinite(a) /\ ~IsFinite(b) THEN (IF a = b THEN a ELSE NaN)
  ELSE IF ~IsFinite(a) THEN a ELSE b

FSub(a, b) == FAdd(a, FNeg(b))

FMul(a, b) ==
  IF IsFinite(a) /\ IsFinite(b) THEN Norm(a[1] * b[1], a[2] * b[2])
  ELSE IF isnan(a) \/ isnan(b) THEN NaN
  ELSE IF a[1] = 0 \/ b[1] = 0 THEN NaN
  ELSE <<Sgn(a[1]) * Sgn(b[1]), 0>>

FDiv(a, b) ==
  IF isnan(a) \/ isnan(b) THEN NaN
  ELSE IF IsFinite(a) /\ IsFinite(b) THEN
         IF b[1] # 0 THEN Norm(a[1] * b[2], a[2] * b[1])
         ELSE IF a[1] = 0 THEN NaN ELSE <<Sgn(a[1]), 0>>
  ELSE IF ~IsFinite(a) /\ ~IsFinite(b) THEN NaN
  ELSE IF ~IsFinite(a) THEN <<a[1] * (IF b[1] < 0 THEN -1 ELSE 1), 0>>
  ELSE F(0)

\* a < b and a <= b on floats; every comparison with NaN is false
FLess(a, b) ==
  /\ ~isnan(a) /\ ~isnan(b)
  /\ IF IsFinite(a) /\ IsFinite(b) THEN a[1] * b[2] < b[1] * a[2]
     ELSE IF ~IsFinite(a) /\ ~IsFinite(b) THEN a[1] < b[1]
     ELSE IF ~IsFinite(a) THEN a[1] < 0 ELSE b[1] > 0

FLessEq(a, b) == ~isnan(a) /\ ~isnan(b) /\ ~FLess(b, a)

\* the integral part of a finite float, rounded toward zero
Trunc(a) == IF a[1] >= 0 THEN a[1] \div a[2] ELSE -((-a[1]) \div a[2])

\* the largest integer <= a finite float
Floor(a) == a[1] \div a[2]

(***************************************************************************)
(* const int8_t c = <float expression>.  The fractional part is discarded. *)
(* When the truncated value does not fit int8_t the conversion is          *)
(* undefined: the builds either convert to a wider int and keep the low 8  *)
(* bits ("wrap") or fold the conversion to the nearest int8_t value        *)
(* ("saturate").  conv selects the outcome.                                *)
(***************************************************************************)
Int8Conv == {"wrap", "saturate"}

Int8Wrap(n) == ((n + 128) % 256) - 128

Int8Sat(n) == IF n < -128 THEN -128 ELSE IF n > 127 THEN 127 ELSE n

FitsInt8(n) == n \in -128..127

FloatToInt8(a, conv) ==
  IF ~IsFinite(a) THEN (IF conv = "wrap" THEN 0 ELSE Int8Sat(a[1] * 128))
  ELSE IF FitsInt8(Trunc(a)) THEN Trunc(a)
  ELSE IF conv = "wrap" THEN Int8Wrap(Trunc(a)) ELSE Int8Sat(Trunc(a))

----------------------------------------------------------------------------
(* macros *)

RECIPROCAL(x) == FDiv(F(1), x)

constrain(v, lo, hi) == IF v < lo THEN lo ELSE IF v > hi THEN hi ELSE v

\* WITHIN on ints
WITHIN(v, lo, hi) == v >= lo /\ v <= hi

\* WITHIN on floats
WITHINF(v, lo, hi) == FLessEq(lo, v) /\ FLessEq(v, hi)

MIN2(a, b) == IF a < b THEN a ELSE b

----------------------------------------------------------------------------
(* build configuration *)

GRID_MAX_POINTS_X == 3
GRID_MAX_POINTS_Y == 3
MESH_MIN_X == 0
MESH_MAX_X == 200
MESH_MIN_Y == 0
MESH_MAX_Y == 200

UBL_Z_RAISE_WHEN_OFF_MESH == <<5, 2>>

MESH_X_DIST == FDiv(F(MESH_MAX_X - MESH_MIN_X), F(GRID_MAX_POINTS_X - 1))
MESH_Y_DIST == FDiv(F(MESH_MAX_Y - MESH_MIN_Y), F(GRID_MAX_POINTS_Y - 1))

XIndex == 0..(GRID_MAX_POINTS_X - 1)
YIndex == 0..(GRID_MAX_POINTS_Y - 1)

\* const float _mesh_index_to_xpos[GRID_MAX_POINTS_X], _mesh_index_to_ypos[...]
mesh_index_to_xpos_table(i) == FAdd(F(MESH_MIN_X), FMul(F(i), MESH_X_DIST))
mesh_index_to_ypos_table(i) == FAdd(F(MESH_MIN_Y), FMul(F(i), MESH_Y_DIST))


----------------------------------------------------------------------------
(* class unified_bed_leveling *)

\* get_cell_index_x clamping to the last cell instead of the last grid line
get_cell_index_x_last_cell(x, conv) ==
  LET cx == FloatToInt8(FMul(FSub(x, F(MESH_MIN_X)), RECIPROCAL(MESH_X_DIST)), conv)
  IN  constrain(cx, 0, GRID_MAX_POINTS_X - 2)

\* int8_t get_cell_index_x(const float &x)
get_cell_index_x(x, conv) ==
  LET cx == FloatToInt8(FMul(FSub(x, F(MESH_MIN_X)), RECIPROCAL(MESH_X_DIST)), conv)
  IN  constrain(cx, 0, GRID_MAX_POINTS_X - 1)

\* int8_t get_cell_index_y(const float &y)
get_cell_index_y(y, conv) ==
  LET cy == FloatToInt8(FMul(FSub(y, F(MESH_MIN_Y)), RECIPROCAL(MESH_Y_DIST)), conv)
  IN  constrain(cy, 0, GRID_MAX_POINTS_Y - 1)

\* find_closest_x_index rejecting the last grid line (off by one in the range test)
find_closest_x_index_short(x, conv) ==
  LET px == FloatToInt8(FMul(FAdd(FSub(x, F(MESH_MIN_X)), FMul(MESH_X_DIST, <<1, 2>>)),
                             RECIPROCAL(MESH_X_DIST)), conv)
  IN  IF WITHIN(px, 0, GRID_MAX_POINTS_X - 2) THEN px ELSE -1

\* int8_t find_closest_x_index(const float &x)
find_closest_x_index(x, conv) ==
  LET px == FloatToInt8(FMul(FAdd(FSub(x, F(MESH_MIN_X)), FMul(MESH_X_DIST, <<1, 2>>)),
                             RECIPROCAL(MESH_X_DIST)), conv)
  IN  IF WITHIN(px, 0, GRID_MAX_POINTS_X - 1) THEN px ELSE -1

\* int8_t find_closest_y_index(const float &y)
find_closest_y_index(y, conv) ==
  LET py == FloatToInt8(FMul(FAdd(FSub(y, F(MESH_MIN_Y)), FMul(MESH_Y_DIST, <<1, 2>>)),
                             RECIPROCAL(MESH_Y_DIST)), conv)
  IN  IF WITHIN(py, 0, GRID_MAX_POINTS_Y - 1) THEN py ELSE -1

\* calc_z0 measuring the distance from the far end a2 instead of from a1
calc_z0_from_far_end(a0, a1, z1, a2, z2) ==
  FAdd(z1, FDiv(FMul(FSub(z2, z1), FSub(a2, a0)), FSub(a2, a1)))

\* float calc_z0(a0, a1, z1, a2, z2)
calc_z0(a0, a1, z1, a2, z2) ==
  FAdd(z1, FDiv(FMul(FSub(z2, z1), FSub(a0, a1)), FSub(a2, a1)))

\* mesh_index_to_xpos reading the table's last entry for an index past its end
mesh_index_to_xpos_clamped(i) ==
  LET u == i % 256
  IN  mesh_index_to_xpos_table(MIN2(u, GRID_MAX_POINTS_X - 1))

\* float mesh_index_to_xpos(const uint8_t i): the argument is cut to 8 bits
mesh_index_to_xpos(i) ==
  LET u == i % 256
  IN  IF u < GRID_MAX_POINTS_X THEN mesh_index_to_xpos_table(u)
      ELSE FAdd(F(MESH_MIN_X), FMul(F(u), MESH_X_DIST))

\* float mesh_index_to_ypos(const uint8_t i)
mesh_index_to_ypos(i) ==
  LET u == i % 256
  IN  IF u < GRID_MAX_POINTS_Y THEN mesh_index_to_ypos_table(u)
      ELSE FAdd(F(MESH_MIN_Y), FMul(F(u), MESH_Y_DIST))

\* the three calc_z0 calls with the upper X line taken on row cy again (z2 = z1)
raw_get_z_correction_one_row(cx, cy, rx0, ry0) ==
  LET nx == MIN2(cx, GRID_MAX_POINTS_X - 2) + 1
      z1 == calc_z0(rx0, mesh_index_to_xpos(cx), z_values[cx][cy],
                         mesh_index_to_xpos(cx + 1), z_values[nx][cy])
  IN  calc_z0(ry0, mesh_index_to_ypos(cy), z1, mesh_index_to_ypos(cy + 1), z1)

\* the three calc_z0 calls with column cx read for both ends of the X lines
raw_get_z_correction_one_column(cx, cy, rx0, ry0) ==
  LET ny == MIN2(cy, GRID_MAX_POINTS_Y - 2) + 1
      z1 == calc_z0(rx0, mesh_index_to_xpos(cx), z_values[cx][cy],
                         mesh_index_to_xpos(cx + 1), z_values[cx][cy])
      z2 == calc_z0(rx0, mesh_index_to_xpos(cx), z_values[cx][ny],
                         mesh_index_to_xpos(cx + 1), z_values[cx][ny])
  IN  calc_z0(ry0, mesh_index_to_ypos(cy), z1, mesh_index_to_ypos(cy + 1), z2)

\* get_z_correction, the three calc_z0 calls on cell (cx, cy): z0 before the isnan test
raw_get_z_correction(cx, cy, rx0, ry0) ==
  LET nx == MIN2(cx, GRID_MAX_POINTS_X - 2) + 1
      ny == MIN2(cy, GRID_MAX_POINTS_Y - 2) + 1
      z1 == calc_z0(rx0, mesh_index_to_xpos(cx), z_values[cx][cy],
                         mesh_index_to_xpos(cx + 1), z_values[nx][cy])
      z2 == calc_z0(rx0, mesh_index_to_xpos(cx), z_values[cx][ny],
                         mesh_index_to_xpos(cx + 1), z_values[nx][ny])
  IN  calc_z0(ry0, mesh_index_to_ypos(cy), z1, mesh_index_to_ypos(cy + 1), z2)

\* the off-mesh test taking the mesh boundary for off the mesh
off_mesh_raise_on_boundary(rx0, ry0, raise) ==
  /\ raise
  /\ \/ ~(FLess(F(MESH_MIN_X), rx0) /\ FLess(rx0, F(MESH_MAX_X)))
     \/ ~(FLess(F(MESH_MIN_Y), ry0) /\ FLess(ry0, F(MESH_MAX_Y)))

\* get_z_correction, the #ifdef UBL_Z_RAISE_WHEN_OFF_MESH test
off_mesh_raise(rx0, ry0, raise) ==
  /\ raise
  /\ \/ ~WITHINF(rx0, F(MESH_MIN_X), F(MESH_MAX_X))
     \/ ~WITHINF(ry0, F(MESH_MIN_Y), F(MESH_MAX_Y))

\* the isnan(z0) substitution left out
nan_kept(z0) == z0

\* get_z_correction, the isnan(z0) substitution
nan_to_zero(z0) == IF isnan(z0) THEN F(0) ELSE z0

\* float get_z_correction(const float &rx0, const float &ry0), in the build where
\* UBL_Z_RAISE_WHEN_OFF_MESH is defined iff raise
get_z_correction(rx0, ry0, raise, conv) ==
  LET cx == get_cell_index_x(rx0, conv)
      cy == get_cell_index_y(ry0, conv)
  IN  IF off_mesh_raise(rx0, ry0, raise) THEN UBL_Z_RAISE_WHEN_OFF_MESH
      ELSE nan_to_zero(raw_get_z_correction(cx, cy, rx0, ry0))

\* the elements read with cx + 1 and cy + 1 not held below the array's end
get_z_correction_reads_unclamped(cx, cy) ==
  {<<cx, cy>>, <<cx + 1, cy>>, <<cx, cy + 1>>, <<cx + 1, cy + 1>>}

\* the z_values elements get_z_correction reads on cell (cx, cy)
get_z_correction_reads(cx, cy) ==
  {<<cx, cy>>,
   <<MIN2(cx, GRID_MAX_POINTS_X - 2) + 1, cy>>,
   <<cx, MIN2(cy, GRID_MAX_POINTS_Y - 2) + 1>>,
   <<MIN2(cx, GRID_MAX_POINTS_X - 2) + 1, MIN2(cy, GRID_MAX_POINTS_Y - 2) + 1>>}

\* the off-mesh value with 0.0 in the place of NAN
off_mesh_value_zero(raise) == IF raise THEN UBL_Z_RAISE_WHEN_OFF_MESH ELSE F(0)

\* the value returned for a location off the mesh: UBL_Z_RAISE_WHEN_OFF_MESH or NAN
off_mesh_value(raise) == IF raise THEN UBL_Z_RAISE_WHEN_OFF_MESH ELSE NaN

\* the index test of the two single-axis helpers
off_mesh_index(xi, yi) ==
  ~WITHIN(xi, 0, GRID_MAX_POINTS_X - 1) \/ ~WITHIN(yi, 0, GRID_MAX_POINTS_Y - 1)

\* z_correction_for_x_on_horizontal_mesh_line with the NaN result replaced by 0.0,
\* as get_z_correction does
z_correction_for_x_on_horizontal_mesh_line_zeroed(rx0, x1_i, yi, raise) ==
  IF off_mesh_index(x1_i, yi) THEN off_mesh_value(raise)
  ELSE LET xratio == FMul(FSub(rx0, mesh_index_to_xpos(x1_i)), RECIPROCAL(MESH_X_DIST))
           z1     == z_values[x1_i][yi]
       IN  nan_to_zero(FAdd(z1, FMul(xratio,
                         FSub(z_values[MIN2(x1_i, GRID_MAX_POINTS_X - 2) + 1][yi], z1))))

\* float z_correction_for_x_on_horizontal_mesh_line(rx0, x1_i, yi)
z_correction_for_x_on_horizontal_mesh_line(rx0, x1_i, yi, raise) ==
  IF off_mesh_index(x1_i, yi) THEN off_mesh_value(raise)
  ELSE LET xratio == FMul(FSub(rx0, mesh_index_to_xpos(x1_i)), RECIPROCAL(MESH_X_DIST))
           z1     == z_values[x1_i][yi]
       IN  FAdd(z1, FMul(xratio,
                         FSub(z_values[MIN2(x1_i, GRID_MAX_POINTS_X - 2) + 1][yi], z1)))

\* the z_values elements z_correction_for_x_on_horizontal_mesh_line reads
horizontal_mesh_line_reads(x1_i, yi) ==
  IF off_mesh_index(x1_i, yi) THEN {}
  ELSE {<<x1_i, yi>>, <<MIN2(x1_i, GRID_MAX_POINTS_X - 2) + 1, yi>>}

\* z_correction_for_y_on_vertical_mesh_line with the two indices of z_values swapped
z_correction_for_y_on_vertical_mesh_line_transposed(ry0, xi, y1_i, raise) ==
  IF off_mesh_index(xi, y1_i) THEN off_mesh_value(raise)
  ELSE LET yratio == FMul(FSub(ry0, mesh_index_to_ypos(y1_i)), RECIPROCAL(MESH_Y_DIST))
           z1     == z_values[y1_i][xi]
       IN  FAdd(z1, FMul(yratio,
                         FSub(z_values[MIN2(y1_i, GRID_MAX_POINTS_Y - 2) + 1][xi], z1)))

\* float z_correction_for_y_on_vertical_mesh_line(ry0, xi, y1_i)
z_correction_for_y_on_vertical_mesh_line(ry0, xi, y1_i, raise) ==
  IF off_mesh_index(xi, y1_i) THEN off_mesh_value(raise)
  ELSE LET yratio == FMul(FSub(ry0, mesh_index_to_ypos(y1_i)), RECIPROCAL(MESH_Y_DIST))
           z1     == z_values[xi][y1_i]
       IN  FAdd(z1, FMul(yratio,
                         FSub(z_values[xi][MIN2(y1_i, GRID_MAX_POINTS_Y - 2) + 1], z1)))

\* the z_values elements z_correction_for_y_on_vertical_mesh_line reads
vertical_mesh_line_reads(xi, y1_i) ==
  IF off_mesh_index(xi, y1_i) THEN {}
  ELSE {<<xi, y1_i>>, <<xi, MIN2(y1_i, GRID_MAX_POINTS_Y - 2) + 1>>}

\* the z_values elements mesh_is_valid reads: in loop order, up to the first NaN
mesh_is_valid_reads ==
  LET Order(p) == p[1] * GRID_MAX_POINTS_Y + p[2]
      Points   == XIndex \X YIndex
  IN  {p \in Points : \A q \in Points : Order(q) < Order(p) => ~isnan(z_values[q[1]][q[2]])}

\* mesh_is_valid with the x loop stopping one column early
mesh_is_valid_short ==
  \A x \in 0..(GRID_MAX_POINTS_X - 2) : \A y \in YIndex : ~isnan(z_values[x][y])

\* mesh_is_valid with the isnan test negated
mesh_is_valid_negated ==
  \A x \in XIndex : \A y \in YIndex : isnan(z_values[x][y])

\* bool mesh_is_valid()
mesh_is_valid ==
  \A x \in XIndex : \A y \in YIndex : ~isnan(z_values[x][y])

----------------------------------------------------------------------------
(* inputs *)

\* positions are taken every quarter of a cell, up to MaxOut quarters beyond
\* either end of the mesh span (MaxOutXY for the two-dimensional queries)
MaxOut == 3
MaxOutXY == 2

QuarterX(k) == FAdd(F(MESH_MIN_X), FMul(F(k), FDiv(MESH_X_DIST, F(4))))
QuarterY(k) == FAdd(F(MESH_MIN_Y), FMul(F(k), FDiv(MESH_Y_DIST, F(4))))

NearX == {QuarterX(k) : k \in (-MaxOut)..(4 * (GRID_MAX_POINTS_X - 1) + MaxOut)}
NearY == {QuarterY(k) : k \in (-MaxOut)..(4 * (GRID_MAX_POINTS_Y - 1) + MaxOut)}

\* positions whole cells away from MESH_MIN, among them those whose quotient
\* leaves int8_t
FarCells == {-130, -129, -2, 128, 257}

FarX == {FAdd(F(MESH_MIN_X), FMul(F(q), MESH_X_DIST)) : q \in FarCells}
FarY == {FAdd(F(MESH_MIN_Y), FMul(F(q), MESH_Y_DIST)) : q \in FarCells}

PosX == NearX \cup FarX
PosY == NearY \cup FarY

\* the queries of get_z_correction: every near pair, and each far position
\* against the positions of the other axis that lie on grid lines or mid-cell
HalfX == {QuarterX(2 * k) : k \in 0..(2 * (GRID_MAX_POINTS_X - 1))}
HalfY == {QuarterY(2 * k) : k \in 0..(2 * (GRID_MAX_POINTS_Y - 1))}

NearXY ==
  {QuarterX(k) : k \in (-MaxOutXY)..(4 * (GRID_MAX_POINTS_X - 1) + MaxOutXY)}
    \X {QuarterY(k) : k \in (-MaxOutXY)..(4 * (GRID_MAX_POINTS_Y - 1) + MaxOutXY)}

Queries == NearXY \cup (FarX \X HalfY) \cup (HalfX \X FarY)

\* the coordinates given to the single-axis helpers: the grid lines, a quarter and
\* a half of a cell after the first line, and NaN
HelperX == {mesh_index_to_xpos(i) : i \in XIndex} \cup {QuarterX(1), QuarterX(2), NaN}
HelperY == {mesh_index_to_ypos(j) : j \in YIndex} \cup {QuarterY(1), QuarterY(2), NaN}

\* index pairs with an index one step off the mesh
OffIndexPairs ==
  {p \in ((0 - 1)..GRID_MAX_POINTS_X) \X ((0 - 1)..GRID_MAX_POINTS_Y) :
     p[1] \notin XIndex \/ p[2] \notin YIndex}

\* <<coordinate, <<xi, yi>>>>: every helper coordinate with every mesh point, and
\* one coordinate with every index pair off the mesh
HelperInputsX ==
  (HelperX \X (XIndex \X YIndex)) \cup ({QuarterX(1)} \X OffIndexPairs)
HelperInputsY ==
  (HelperY \X (XIndex \X YIndex)) \cup ({QuarterY(1)} \X OffIndexPairs)

\* the height the probe measures at mesh point (px, py)
MeasuredZ(px, py) == F(<< <<1, 3, 7>>, <<2, 4, -3>>, <<6, -1, 5>> >>[px + 1][py + 1])

----------------------------------------------------------------------------
(* G28 (Marlin/src/gcode/calibrate/G28.cpp) *)

(***************************************************************************)
(* GcodeSuite::G28 is one handler: it runs from its first line to its      *)
(* return without interleaving.  It is modelled by the operator G28, that  *)
(* threads a machine record m through the statements of the handler in     *)
(* their order.  The functions G28 calls live in other files; each call is *)
(* appended to m.log, with the state it was made in, and changes the       *)
(* fields of m that its name and its use in G28.cpp say it changes.        *)
(* The build options that G28.cpp tests are the fields of config.  Fixed   *)
(* in every build modelled: HAS_LEVELING, HOTENDS > 1,                     *)
(* IMPROVE_HOMING_RELIABILITY with HAS_CLASSIC_JERK are enabled;           *)
(* MARLIN_DEV_MODE, PROBE_MANUALLY, CNC_WORKSPACE_PLANES, BLTOUCH,         *)
(* SENSORLESS_HOMING, SPI_ENDSTOPS, NANODLP_Z_SYNC, L6470 drivers and      *)
(* Z_AFTER_PROBING are disabled.                                           *)
(***************************************************************************)

Axes == {"X", "Y", "Z"}

Z_HOMING_HEIGHT == 10
Z_MIN_POS == 0
Z_MAX_POS == 30

\* the acceleration and jerk G28 homes with under IMPROVE_HOMING_RELIABILITY
SlowHoming == [max_acceleration_mm_per_s2 |-> 100, max_jerk |-> 0]

\* the planner's settings before G28
NormalSettings == [max_acceleration_mm_per_s2 |-> 3000, max_jerk |-> 10]

Config(delta, restore, quick, yx, codep, zdir, zsafe, reach, unknown_z, dual_x, dup) ==
  [DELTA |-> delta, RESTORE_LEVELING_AFTER_G28 |-> restore, QUICK_HOME |-> quick,
   HOME_Y_BEFORE_X |-> yx, CODEPENDENT_XY_HOMING |-> codep,
   Z_HOME_DIR |-> zdir, Z_SAFE_HOMING |-> zsafe,
   \* position_is_reachable of the safe homing point, fixed by the build's geometry
   position_is_reachable |-> reach,
   UNKNOWN_Z_NO_RAISE |-> unknown_z, DUAL_X_CARRIAGE |-> dual_x,
   \* dxc_is_duplicating(): dual_x_carriage_mode, which G28 leaves as it found it
   dxc_is_duplicating |-> dup]

\* a cartesian build homing Z to the bed, nothing optional enabled
DefaultConfig ==
  Config(FALSE, FALSE, FALSE, FALSE, FALSE, 0 - 1, FALSE, TRUE, FALSE, FALSE, FALSE)

\* Z_HOME_DIR with Z_SAFE_HOMING and the reach of its point; home_z_safely is
\* compiled in the Z_HOME_DIR < 0 branch only
ZHoming == {<<1, FALSE, TRUE>>, <<0 - 1, FALSE, TRUE>>, <<0 - 1, TRUE, TRUE>>,
            <<0 - 1, TRUE, FALSE>>}

\* the builds checked: the options that order and select the homing moves in every
\* combination; RESTORE_LEVELING_AFTER_G28, the dual X carriage and the delta builds
\* on the default of the others
Configs ==
  {Config(FALSE, FALSE, q, yx, co, zh[1], zh[2], zh[3], uz, FALSE, FALSE) :
     q \in BOOLEAN, yx \in BOOLEAN, co \in BOOLEAN, zh \in ZHoming, uz \in BOOLEAN}
  \cup {Config(FALSE, TRUE, FALSE, FALSE, FALSE, zh[1], zh[2], zh[3], FALSE, FALSE, FALSE) :
     zh \in ZHoming}
  \cup {Config(FALSE, FALSE, FALSE, FALSE, FALSE, 0 - 1, zs, TRUE, FALSE, TRUE, du) :
     zs \in BOOLEAN, du \in BOOLEAN}
  \cup {Config(TRUE, r, FALSE, FALSE, FALSE, 1, FALSE, TRUE, FALSE, FALSE, FALSE) :
     r \in BOOLEAN}

\* the machine state a handler works on, with the log of its calls
Machine(homed, known, leveling, extruder, endstops, percentage, settings, z) ==
  [axis_homed |-> homed, axis_known_position |-> known, leveling_active |-> leveling,
   active_extruder |-> extruder, endstops_enabled |-> endstops,
   feedrate_percentage |-> percentage, planner_settings |-> settings, current_z |-> z,
   log |-> <<>>]

\* a call of a function outside G28.cpp: its name, its argument, and the state it
\* leaves
Ev(m, op, arg) ==
  [m EXCEPT !.log = Append(@, [op |-> op, arg |-> arg,
                               leveling_active |-> m.leveling_active,
                               current_z |-> m.current_z])]

\* homing_needed(): some axis is not homed
homing_needed(m) == m.axis_homed # Axes

\* homeaxis(axis): the axis is at its endstop, homed and of known position
homeaxis(m, axis) ==
  LET home_z == IF config.Z_HOME_DIR < 0 THEN Z_MIN_POS ELSE Z_MAX_POS
  IN  Ev([m EXCEPT !.axis_homed = @ \cup {axis},
                   !.axis_known_position = @ \cup {axis},
                   !.current_z = IF axis = "Z" THEN home_z ELSE @],
         "homeaxis", axis)

\* home_delta(): the three towers are homed together
home_delta(m) ==
  Ev([m EXCEPT !.axis_homed = Axes, !.axis_known_position = Axes, !.current_z = Z_MAX_POS],
     "home_delta", "")

do_blocking_move_to_z(m, z) == Ev([m EXCEPT !.current_z = z], "do_blocking_move_to_z", "")

set_bed_leveling_enabled(m, enable) ==
  Ev([m EXCEPT !.leveling_active = enable], "set_bed_leveling_enabled",
     IF enable THEN "true" ELSE "false")

tool_change(m, tool) ==
  Ev([m EXCEPT !.active_extruder = tool], "tool_change", IF tool = 0 THEN "0" ELSE "1")

\* static void quick_home_xy(): one diagonal move to both endstops
quick_home_xy(m) ==
  Ev(Ev(Ev(m, "sync_plan_position", ""), "do_blocking_move_to_xy", "quick_home_xy"),
     "endstops.validate_homing_move", "")

\* home_z_safely without the test of the X and Y positions
home_z_safely_unchecked(m) ==
  LET synced == Ev(m, "sync_plan_position", "")
  IN  IF config.position_is_reachable
      THEN homeaxis(Ev(synced, "do_blocking_move_to_xy", "home_z_safely"), "Z")
      ELSE Ev(synced, "SERIAL_ECHO_MSG", "MSG_ZPROBE_OUT")

\* inline void home_z_safely()
home_z_safely(m) ==
  IF "X" \notin m.axis_known_position \/ "Y" \notin m.axis_known_position
  THEN Ev(m, "SERIAL_ECHO_MSG", "MSG_ERR_Z_HOMING")
  ELSE LET synced == Ev(m, "sync_plan_position", "")
       IN  IF config.position_is_reachable
           THEN homeaxis(Ev(synced, "do_blocking_move_to_xy", "home_z_safely"), "Z")
           ELSE Ev(synced, "SERIAL_ECHO_MSG", "MSG_ZPROBE_OUT")

\* the parameters of a G28 command
NoR == 0 - 1
RValues == {NoR, 0, 20}

G28Params(always_home_all, O, X, Y, Z, R) ==
  [op |-> "G28", always_home_all |-> always_home_all, O |-> O, X |-> X, Y |-> Y, Z |-> Z,
   R |-> R]

G28Idle == [op |-> "idle", always_home_all |-> FALSE, O |-> FALSE, X |-> FALSE,
            Y |-> FALSE, Z |-> FALSE, R |-> NoR]

\* home_all = always_home_all || (homeX == homeY && homeX == homeZ) with the Z test lost
home_all_xy_only(always_home_all, homeX, homeY, homeZ) ==
  always_home_all \/ (homeX = homeY)

\* home_all = always_home_all || (homeX == homeY && homeX == homeZ)
home_all(always_home_all, homeX, homeY, homeZ) ==
  always_home_all \/ (homeX = homeY /\ homeX = homeZ)

doX(p) == home_all(p.always_home_all, p.X, p.Y, p.Z) \/ p.X
doY(p) == home_all(p.always_home_all, p.X, p.Y, p.Z) \/ p.Y
doZ(p) == home_all(p.always_home_all, p.X, p.Y, p.Z) \/ p.Z

\* the test with the O parameter read as its negation
homing_not_needed_skip_without_O(m, p) == ~homing_needed(m) /\ ~p.O

\* if (!homing_needed() && parser.boolval('O')) return;
homing_not_needed_skip(m, p) == ~homing_needed(m) /\ p.O

\* the X homing of G28: both carriages, the right one first, on a dual X carriage
home_x(m) ==
  IF config.DUAL_X_CARRIAGE
  THEN homeaxis([homeaxis([m EXCEPT !.active_extruder = 1], "X")
                   EXCEPT !.active_extruder = 0], "X")
  ELSE homeaxis(m, "X")

\* G28_cartesian moving Z to the homing height without comparing it with the current Z
G28_cartesian_always_to_height(m, p) ==
  LET dest      == Ev(m, "set_destination_from_current", "")
      z_first   == IF config.Z_HOME_DIR > 0 /\ doZ(p) THEN homeaxis(dest, "Z") ELSE dest
      z_homing_height ==
        IF config.UNKNOWN_Z_NO_RAISE /\ "Z" \notin z_first.axis_known_position THEN 0
        ELSE IF p.R # NoR THEN p.R ELSE Z_HOMING_HEIGHT
      raised    == IF /\ z_homing_height # 0
                      /\ doX(p) \/ doY(p)
                   THEN do_blocking_move_to_z(z_first, z_homing_height) ELSE z_first
      quick     == IF config.QUICK_HOME /\ doX(p) /\ doY(p)
                   THEN quick_home_xy(raised) ELSE raised
      y_before  == IF /\ config.HOME_Y_BEFORE_X
                      /\ doY(p) \/ (config.CODEPENDENT_XY_HOMING /\ doX(p))
                   THEN homeaxis(quick, "Y") ELSE quick
      x_homed   == IF \/ doX(p)
                      \/ config.CODEPENDENT_XY_HOMING /\ ~config.HOME_Y_BEFORE_X /\ doY(p)
                   THEN home_x(y_before) ELSE y_before
      y_after   == IF ~config.HOME_Y_BEFORE_X /\ doY(p)
                   THEN homeaxis(x_homed, "Y") ELSE x_homed
      z_last    == IF config.Z_HOME_DIR < 0 /\ doZ(p)
                   THEN (IF config.Z_SAFE_HOMING THEN home_z_safely(y_after)
                         ELSE homeaxis(y_after, "Z"))
                   ELSE y_after
  IN  Ev(z_last, "sync_plan_position", "")

\* G28_cartesian homing Z first whatever Z_HOME_DIR is
G28_cartesian_z_first(m, p) ==
  LET dest      == Ev(m, "set_destination_from_current", "")
      z_first   == IF doZ(p) THEN homeaxis(dest, "Z") ELSE dest
      z_homing_height ==
        IF config.UNKNOWN_Z_NO_RAISE /\ "Z" \notin z_first.axis_known_position THEN 0
        ELSE IF p.R # NoR THEN p.R ELSE Z_HOMING_HEIGHT
      raised    == IF /\ z_homing_height # 0
                      /\ doX(p) \/ doY(p)
                      /\ z_homing_height > z_first.current_z
                   THEN do_blocking_move_to_z(z_first, z_homing_height) ELSE z_first
      quick     == IF config.QUICK_HOME /\ doX(p) /\ doY(p)
                   THEN quick_home_xy(raised) ELSE raised
      y_before  == IF /\ config.HOME_Y_BEFORE_X
                      /\ doY(p) \/ (config.CODEPENDENT_XY_HOMING /\ doX(p))
                   THEN homeaxis(quick, "Y") ELSE quick
      x_homed   == IF \/ doX(p)
                      \/ config.CODEPENDENT_XY_HOMING /\ ~config.HOME_Y_BEFORE_X /\ doY(p)
                   THEN home_x(y_before) ELSE y_before
      y_after   == IF ~config.HOME_Y_BEFORE_X /\ doY(p)
                   THEN homeaxis(x_homed, "Y") ELSE x_homed
  IN  Ev(y_after, "sync_plan_position", "")

\* G28, #else // NOT DELTA
G28_cartesian(m, p) ==
  LET dest      == Ev(m, "set_destination_from_current", "")
      z_first   == IF config.Z_HOME_DIR > 0 /\ doZ(p) THEN homeaxis(dest, "Z") ELSE dest
      z_homing_height ==
        IF config.UNKNOWN_Z_NO_RAISE /\ "Z" \notin z_first.axis_known_position THEN 0
        ELSE IF p.R # NoR THEN p.R ELSE Z_HOMING_HEIGHT
      raised    == IF /\ z_homing_height # 0
                      /\ doX(p) \/ doY(p)
                      /\ z_homing_height > z_first.current_z
                   THEN do_blocking_move_to_z(z_first, z_homing_height) ELSE z_first
      quick     == IF config.QUICK_HOME /\ doX(p) /\ doY(p)
                   THEN quick_home_xy(raised) ELSE raised
      y_before  == IF /\ config.HOME_Y_BEFORE_X
                      /\ doY(p) \/ (config.CODEPENDENT_XY_HOMING /\ doX(p))
                   THEN homeaxis(quick, "Y") ELSE quick
      x_homed   == IF \/ doX(p)
                      \/ config.CODEPENDENT_XY_HOMING /\ ~config.HOME_Y_BEFORE_X /\ doY(p)
                   THEN home_x(y_before) ELSE y_before
      y_after   == IF ~config.HOME_Y_BEFORE_X /\ doY(p)
                   THEN homeaxis(x_homed, "Y") ELSE x_homed
      z_last    == IF config.Z_HOME_DIR < 0 /\ doZ(p)
                   THEN (IF config.Z_SAFE_HOMING THEN home_z_safely(y_after)
                         ELSE homeaxis(y_after, "Z"))
                   ELSE y_after
  IN  Ev(z_last, "sync_plan_position", "")

\* endstops.not_homing() sets enabled back to enabled_globally
\* (ENDSTOPS_ALWAYS_ON_DEFAULT is disabled)
enabled_globally == FALSE

\* G28 without set_bed_leveling_enabled(false) before homing
G28_leveling_kept(m, p) ==
  IF homing_not_needed_skip(m, p) THEN m
  ELSE
    LET synced     == Ev(m, "planner.synchronize", "")
        leveling_was_active == synced.leveling_active
        unlevelled == synced
        slow       == Ev([unlevelled EXCEPT !.planner_settings = SlowHoming],
                         "planner.reset_acceleration_rates", "")
        old_tool_index == slow.active_extruder
        tool0      == tool_change(slow, 0)
        scaled     == Ev([tool0 EXCEPT !.feedrate_percentage = 100],
                         "remember_feedrate_scaling_off", "")
        enabled    == Ev([scaled EXCEPT !.endstops_enabled = TRUE], "endstops.enable", "true")
        homed      == IF config.DELTA THEN home_delta(enabled)
                      ELSE G28_cartesian(enabled, p)
        duplicated == IF config.DUAL_X_CARRIAGE /\ config.dxc_is_duplicating
                      THEN Ev(home_x(homed), "stepper.set_directions", "") ELSE homed
        not_homing == Ev([duplicated EXCEPT !.endstops_enabled = enabled_globally],
                         "endstops.not_homing", "")
        relevelled == IF config.RESTORE_LEVELING_AFTER_G28
                      THEN set_bed_leveling_enabled(not_homing, leveling_was_active)
                      ELSE not_homing
        rescaled   == Ev([relevelled EXCEPT !.feedrate_percentage = m.feedrate_percentage],
                         "restore_feedrate_and_scaling", "")
        \* #if HOTENDS > 1 && (DISABLED(DELTA) || ENABLED(DELTA_HOME_TO_SAFE_ZONE))
        old_tool   == IF ~config.DELTA THEN tool_change(rescaled, old_tool_index)
                      ELSE rescaled
        normal     == Ev([old_tool EXCEPT !.planner_settings = m.planner_settings],
                         "planner.reset_acceleration_rates", "")
    IN  Ev(Ev(normal, "ui.refresh", ""), "report_current_position", "")

\* void GcodeSuite::G28(const bool always_home_all)
G28(m, p) ==
  IF homing_not_needed_skip(m, p) THEN m
  ELSE
    LET synced     == Ev(m, "planner.synchronize", "")
        leveling_was_active == synced.leveling_active
        unlevelled == set_bed_leveling_enabled(synced, FALSE)
        slow       == Ev([unlevelled EXCEPT !.planner_settings = SlowHoming],
                         "planner.reset_acceleration_rates", "")
        old_tool_index == slow.active_extruder
        tool0      == tool_change(slow, 0)
        scaled     == Ev([tool0 EXCEPT !.feedrate_percentage = 100],
                         "remember_feedrate_scaling_off", "")
        enabled    == Ev([scaled EXCEPT !.endstops_enabled = TRUE], "endstops.enable", "true")
        homed      == IF config.DELTA THEN home_delta(enabled)
                      ELSE G28_cartesian(enabled, p)
        duplicated == IF config.DUAL_X_CARRIAGE /\ config.dxc_is_duplicating
                      THEN Ev(home_x(homed), "stepper.set_directions", "") ELSE homed
        not_homing == Ev([duplicated EXCEPT !.endstops_enabled = enabled_globally],
                         "endstops.not_homing", "")
        relevelled == IF config.RESTORE_LEVELING_AFTER_G28
                      THEN set_bed_leveling_enabled(not_homing, leveling_was_active)
                      ELSE not_homing
        rescaled   == Ev([relevelled EXCEPT !.feedrate_percentage = m.feedrate_percentage],
                         "restore_feedrate_and_scaling", "")
        \* #if HOTENDS > 1 && (DISABLED(DELTA) || ENABLED(DELTA_HOME_TO_SAFE_ZONE))
        old_tool   == IF ~config.DELTA THEN tool_change(rescaled, old_tool_index)
                      ELSE rescaled
        normal     == Ev([old_tool EXCEPT !.planner_settings = m.planner_settings],
                         "planner.reset_acceleration_rates", "")
    IN  Ev(Ev(normal, "ui.refresh", ""), "report_current_position", "")

----------------------------------------------------------------------------
(* state machine *)

\* the value of an index field that the call does not use
NoIndex == 0 - 1

Call(op, x, y, i, j, ret, reti, retb) ==
  [op |-> op, x |-> x, y |-> y, i |-> i, j |-> j, ret |-> ret, reti |-> reti, retb |-> retb]

\* no call in progress
Idle == Call("idle", NaN, NaN, NoIndex, NoIndex, NaN, NoIndex, FALSE)

\* unified_bed_leveling(): reset() leaves every mesh point undefined
Init ==
  /\ z_values = [x \in XIndex |-> [y \in YIndex |-> NaN]]
  /\ raise_defined \in BOOLEAN
  /\ call = Idle
  /\ reads = {}
  /\ config = DefaultConfig
  /\ axis_homed = {}
  /\ axis_known_position = {}
  /\ leveling_active = FALSE
  /\ active_extruder = 0
  /\ endstops_enabled = enabled_globally
  /\ feedrate_percentage = 100
  /\ planner_settings = NormalSettings
  /\ current_z = 0
  /\ g28_call = G28Idle
  /\ log = <<>>

\* set_z(px, py, z): a measured height, or NaN to invalidate the point
SetZ ==
  /\ call = Idle
  /\ \E px \in XIndex, py \in YIndex :
    \E z \in {NaN, MeasuredZ(px, py)} :
      /\ z_values' = [z_values EXCEPT ![px][py] = z]
      /\ call' = Call("set_z", NaN, NaN, px, py, z, NoIndex, FALSE)
      /\ reads' = {}
      /\ UNCHANGED <<raise_defined, g28_vars>>

GetCellIndexX ==
  /\ call = Idle
  /\ \E x \in PosX, conv \in Int8Conv :
    /\ call' = Call("get_cell_index_x", x, NaN, NoIndex, NoIndex, NaN,
                    get_cell_index_x(x, conv), FALSE)
    /\ reads' = {}
    /\ UNCHANGED <<z_values, raise_defined, g28_vars>>

GetCellIndexY ==
  /\ call = Idle
  /\ \E y \in PosY, conv \in Int8Conv :
    /\ call' = Call("get_cell_index_y", NaN, y, NoIndex, NoIndex, NaN,
                    get_cell_index_y(y, conv), FALSE)
    /\ reads' = {}
    /\ UNCHANGED <<z_values, raise_defined, g28_vars>>

FindClosestXIndex ==
  /\ call = Idle
  /\ \E x \in PosX, conv \in Int8Conv :
    /\ call' = Call("find_closest_x_index", x, NaN, NoIndex, NoIndex, NaN,
                    find_closest_x_index(x, conv), FALSE)
    /\ reads' = {}
    /\ UNCHANGED <<z_values, raise_defined, g28_vars>>

FindClosestYIndex ==
  /\ call = Idle
  /\ \E y \in PosY, conv \in Int8Conv :
    /\ call' = Call("find_closest_y_index", NaN, y, NoIndex, NoIndex, NaN,
                    find_closest_y_index(y, conv), FALSE)
    /\ reads' = {}
    /\ UNCHANGED <<z_values, raise_defined, g28_vars>>

MeshIndexToXpos ==
  /\ call = Idle
  /\ \E i \in 0..(GRID_MAX_POINTS_X + 1) :
    /\ call' = Call("mesh_index_to_xpos", NaN, NaN, i, NoIndex,
                    mesh_index_to_xpos(i), NoIndex, FALSE)
    /\ reads' = {}
    /\ UNCHANGED <<z_values, raise_defined, g28_vars>>

MeshIndexToYpos ==
  /\ call = Idle
  /\ \E i \in 0..(GRID_MAX_POINTS_Y + 1) :
    /\ call' = Call("mesh_index_to_ypos", NaN, NaN, NoIndex, i,
                    mesh_index_to_ypos(i), NoIndex, FALSE)
    /\ reads' = {}
    /\ UNCHANGED <<z_values, raise_defined, g28_vars>>

GetZCorrection ==
  /\ call = Idle
  /\ \E q \in Queries, conv \in Int8Conv :
    \* i, j hold the locals cx, cy
    /\ call' = Call("get_z_correction", q[1], q[2],
                    get_cell_index_x(q[1], conv), get_cell_index_y(q[2], conv),
                    get_z_correction(q[1], q[2], raise_defined, conv), NoIndex, FALSE)
    /\ reads' = IF off_mesh_raise(q[1], q[2], raise_defined) THEN {}
                ELSE get_z_correction_reads(get_cell_index_x(q[1], conv),
                                            get_cell_index_y(q[2], conv))
    /\ UNCHANGED <<z_values, raise_defined, g28_vars>>

MeshIsValid ==
  /\ call = Idle
  /\ call' = Call("mesh_is_valid", NaN, NaN, NoIndex, NoIndex, NaN, NoIndex, mesh_is_valid)
  /\ reads' = mesh_is_valid_reads
  /\ UNCHANGED <<z_values, raise_defined, g28_vars>>

\* the call returns to its caller: all the main control context is single-threaded,
\* one call on the class completes before the next begins
Return ==
  /\ call # Idle
  /\ call' = Idle
  /\ reads' = {}
  /\ UNCHANGED <<z_values, raise_defined, g28_vars>>

ZCorrectionForXOnHorizontalMeshLine ==
  /\ call = Idle
  /\ \E in \in HelperInputsX :
    \* x is rx0, i is x1_i, j is yi
    /\ call' = Call("z_correction_for_x_on_horizontal_mesh_line", in[1], NaN,
                    in[2][1], in[2][2],
                    z_correction_for_x_on_horizontal_mesh_line(in[1], in[2][1], in[2][2],
                                                               raise_defined),
                    NoIndex, FALSE)
    /\ reads' = horizontal_mesh_line_reads(in[2][1], in[2][2])
    /\ UNCHANGED <<z_values, raise_defined, g28_vars>>

ZCorrectionForYOnVerticalMeshLine ==
  /\ call = Idle
  /\ \E in \in HelperInputsY :
    \* y is ry0, i is xi, j is y1_i
    /\ call' = Call("z_correction_for_y_on_vertical_mesh_line", NaN, in[1],
                    in[2][1], in[2][2],
                    z_correction_for_y_on_vertical_mesh_line(in[1], in[2][1], in[2][2],
                                                             raise_defined),
                    NoIndex, FALSE)
    /\ reads' = vertical_mesh_line_reads(in[2][1], in[2][2])
    /\ UNCHANGED <<z_values, raise_defined, g28_vars>>

Next ==
  \/ Return
  \/ SetZ
  \/ GetCellIndexX
  \/ GetCellIndexY
  \/ FindClosestXIndex
  \/ FindClosestYIndex
  \/ MeshIndexToXpos
  \/ MeshIndexToYpos
  \/ GetZCorrection
  \/ MeshIsValid
  \/ ZCorrectionForXOnHorizontalMeshLine
  \/ ZCorrectionForYOnVerticalMeshLine

Spec == Init /\ [][Next]_vars

----------------------------------------------------------------------------
(* state machine of G28 *)

\* the axes homed when a G28 arrives
StartHomed == {{}, {"X"}, {"X", "Y"}, {"Z"}, Axes}

\* the parameters of the G28 commands: always_home_all set by the caller, where the
\* axis letters have no effect, or any of the axis letters
Commands ==
  {G28Params(TRUE, O, FALSE, FALSE, FALSE, R) : O \in BOOLEAN, R \in RValues}
  \cup {G28Params(FALSE, O, X, Y, Z, R) :
          O \in BOOLEAN, X \in BOOLEAN, Y \in BOOLEAN, Z \in BOOLEAN, R \in RValues}

\* the heights the nozzle is at when a G28 arrives
StartZ == {0, 15}

\* the machine when the first G28 arrives: any axes homed, leveling on or off, tool 1
\* active, a feedrate scaling of 50 %
InitG28 ==
  /\ z_values = [x \in XIndex |-> [y \in YIndex |-> NaN]]
  /\ raise_defined = FALSE
  /\ call = Idle
  /\ reads = {}
  /\ config \in Configs
  /\ axis_homed \in StartHomed
  /\ axis_known_position = axis_homed
  /\ leveling_active \in BOOLEAN
  /\ active_extruder = 1
  /\ endstops_enabled = enabled_globally
  /\ feedrate_percentage = 50
  /\ planner_settings = NormalSettings
  /\ current_z \in StartZ
  /\ g28_call = G28Idle
  /\ log = <<>>

\* the G28 command, from its first line to its return
GcodeG28 ==
  /\ g28_call = G28Idle
  /\ \E p \in Commands :
       \E m \in {G28(Machine(axis_homed, axis_known_position, leveling_active,
                             active_extruder, endstops_enabled, feedrate_percentage,
                             planner_settings, current_z), p)} :
           /\ g28_call' = p
           /\ log' = m.log
           /\ axis_homed' = m.axis_homed
           /\ axis_known_position' = m.axis_known_position
           /\ leveling_active' = m.leveling_active
           /\ active_extruder' = m.active_extruder
           /\ endstops_enabled' = m.endstops_enabled
           /\ feedrate_percentage' = m.feedrate_percentage
           /\ planner_settings' = m.planner_settings
           /\ current_z' = m.current_z
  /\ UNCHANGED <<ubl_vars, config>>

\* the command queue takes the next command when G28 has returned
G28Return ==
  /\ g28_call # G28Idle
  /\ g28_call' = G28Idle
  /\ log' = <<>>
  /\ UNCHANGED <<ubl_vars, config, machine_vars>>

NextG28 ==
  \/ GcodeG28
  \/ G28Return

SpecG28 == InitG28 /\ [][NextG28]_vars

----------------------------------------------------------------------------
(* vocabulary of the properties *)

Defined(i, j) == ~isnan(z_values[i][j])

\* the grid line after line i, as far as the mesh has one
NextLineX(i) == IF i < GRID_MAX_POINTS_X - 1 THEN i + 1 ELSE i
NextLineY(j) == IF j < GRID_MAX_POINTS_Y - 1 THEN j + 1 ELSE j

\* the four mesh points of the cell whose lower lines are (i, j)
CellPoints(i, j) ==
  {<<i, j>>, <<NextLineX(i), j>>, <<i, NextLineY(j)>>, <<NextLineX(i), NextLineY(j)>>}

AllDefined(points) == \A p \in points : Defined(p[1], p[2])

AllUndefined == \A i \in XIndex : \A j \in YIndex : ~Defined(i, j)

XLine(i) == FAdd(F(MESH_MIN_X), FMul(F(i), MESH_X_DIST))
YLine(j) == FAdd(F(MESH_MIN_Y), FMul(F(j), MESH_Y_DIST))

OffMeshX(x) == FLess(x, F(MESH_MIN_X)) \/ FLess(F(MESH_MAX_X), x)
OffMeshY(y) == FLess(y, F(MESH_MIN_Y)) \/ FLess(F(MESH_MAX_Y), y)

\* (pos - MESH_MIN) / MESH_DIST
QuotX(x) == FDiv(FSub(x, F(MESH_MIN_X)), MESH_X_DIST)
QuotY(y) == FDiv(FSub(y, F(MESH_MIN_Y)), MESH_Y_DIST)

\* (pos - MESH_MIN + MESH_DIST/2) / MESH_DIST
RoundQuotX(x) == FAdd(QuotX(x), <<1, 2>>)
RoundQuotY(y) == FAdd(QuotY(y), <<1, 2>>)

Clamp(v, lo, hi) == IF v < lo THEN lo ELSE IF v > hi THEN hi ELSE v

\* the bilinear reference value on cell (cx, cy)
Bilinear(cx, cy, x, y) ==
  LET xratio   == FDiv(FSub(x, XLine(cx)), MESH_X_DIST)
      yratio   == FDiv(FSub(y, YLine(cy)), MESH_Y_DIST)
      z_bottom == FAdd(z_values[cx][cy],
                       FMul(FSub(z_values[cx + 1][cy], z_values[cx][cy]), xratio))
      z_top    == FAdd(z_values[cx][cy + 1],
                       FMul(FSub(z_values[cx + 1][cy + 1], z_values[cx][cy + 1]), xratio))
  IN  FAdd(z_bottom, FMul(FSub(z_top, z_bottom), yratio))

IsGetZ == call.op = "get_z_correction"

\* get_z_correction returned at its UBL_Z_RAISE_WHEN_OFF_MESH test
Raised == raise_defined /\ (OffMeshX(call.x) \/ OffMeshY(call.y))

----------------------------------------------------------------------------
(* C1 *)

\* C1 as stated: at the coordinate of each corner of a cell whose four corners are
\* defined, get_z_correction returns the corner's stored value, whatever the other
\* mesh points hold.
C1_CornerValueWhateverTheRest ==
  IsGetZ =>
    \A cx \in 0..(GRID_MAX_POINTS_X - 2), cy \in 0..(GRID_MAX_POINTS_Y - 2) :
      AllDefined(CellPoints(cx, cy)) =>
        \A i \in {cx, cx + 1}, j \in {cy, cy + 1} :
          (call.x = XLine(i) /\ call.y = YLine(j)) => call.ret = z_values[i][j]

\* C1 (amended): at the coordinate of corner (i, j) of a cell whose four corners
\* are defined, get_z_correction returns the corner's stored value when the points of
\* the cell that starts at (i, j) are all defined, which is always so for the cell's
\* own lower corner (cx, cy), and returns 0.0 when one of them is undefined.
C1_CornerValue ==
  IsGetZ =>
    \A cx \in 0..(GRID_MAX_POINTS_X - 2), cy \in 0..(GRID_MAX_POINTS_Y - 2) :
      AllDefined(CellPoints(cx, cy)) =>
        \A i \in {cx, cx + 1}, j \in {cy, cy + 1} :
          (call.x = XLine(i) /\ call.y = YLine(j)) =>
            call.ret = IF AllDefined(CellPoints(i, j)) THEN z_values[i][j] ELSE F(0)

\* cell (0,0) is defined, another point of the mesh is not, and the query at the
\* cell's upper corner (1,1) returned the stored value
C1_Witness ==
  /\ IsGetZ
  /\ AllDefined(CellPoints(0, 0))
  /\ ~mesh_is_valid
  /\ call.x = XLine(1) /\ call.y = YLine(1)
  /\ AllDefined(CellPoints(1, 1))
  /\ call.ret = z_values[1][1]

----------------------------------------------------------------------------
(* C2 *)

\* C2: when one of the mesh points get_z_correction reads (those of the cell
\* (cx, cy) it selected) is undefined, it returns exactly 0.0, never NaN.
C2_UndefinedGivesZero ==
  (IsGetZ /\ ~Raised /\ ~AllDefined(CellPoints(call.i, call.j))) => call.ret = F(0)

\* the query lies on grid line 0 of both axes (both ratios are 0), point (0,0) is
\* defined, the point (1,0) that the zero ratio multiplies is not, and 0.0 came back
C2_Witness ==
  /\ IsGetZ
  /\ call.x = XLine(0) /\ call.y = YLine(0)
  /\ Defined(0, 0) /\ ~Defined(1, 0) /\ Defined(0, 1) /\ Defined(1, 1)
  /\ call.ret = F(0)

----------------------------------------------------------------------------
(* C3 *)

StrictlyInside(cx, cy, x, y) ==
  /\ FLess(XLine(cx), x) /\ FLess(x, XLine(cx + 1))
  /\ FLess(YLine(cy), y) /\ FLess(y, YLine(cy + 1))

Scenario ==
  /\ z_values[0][0] = F(1) /\ z_values[1][0] = F(2)
  /\ z_values[0][1] = F(3) /\ z_values[1][1] = F(4)
  /\ call.x = F(50) /\ call.y = F(50)

\* C3: strictly inside a cell whose four corners are defined, get_z_correction
\* equals the bilinear reference value, whatever the other mesh points hold; on the
\* 3x3 grid over 0..200 with corners 1, 2, 3, 4 the query (50, 50) yields 2.5.
C3_Bilinear ==
  IsGetZ =>
    /\ \A cx \in 0..(GRID_MAX_POINTS_X - 2), cy \in 0..(GRID_MAX_POINTS_Y - 2) :
         (StrictlyInside(cx, cy, call.x, call.y) /\ AllDefined(CellPoints(cx, cy)))
           => call.ret = Bilinear(cx, cy, call.x, call.y)
    /\ Scenario => call.ret = <<5, 2>>

\* the scenario, with a mesh point outside the cell undefined
C3_Witness ==
  /\ IsGetZ
  /\ Scenario
  /\ ~mesh_is_valid
  /\ call.ret = <<5, 2>>

----------------------------------------------------------------------------
(* C4 *)

\* C4: on a fully defined mesh, at a position on an interior grid line the value
\* get_z_correction returns (from the cell that starts at the line) is the value the
\* cell that ends at the line gives there, along X and along Y.
C4_Continuous ==
  (IsGetZ /\ mesh_is_valid /\ ~Raised) =>
    /\ \A i \in 1..(GRID_MAX_POINTS_X - 2) :
         call.x = XLine(i) =>
           /\ call.i = i
           /\ call.ret = raw_get_z_correction(i - 1, call.j, call.x, call.y)
    /\ \A j \in 1..(GRID_MAX_POINTS_Y - 2) :
         call.y = YLine(j) =>
           /\ call.j = j
           /\ call.ret = raw_get_z_correction(call.i, j - 1, call.x, call.y)

\* a query on the interior X line 1, strictly inside a cell along Y, on a full mesh
C4_Witness ==
  /\ IsGetZ
  /\ mesh_is_valid
  /\ call.x = XLine(1)
  /\ FLess(YLine(0), call.y) /\ FLess(call.y, YLine(1))
  /\ call.ret = raw_get_z_correction(0, 0, call.x, call.y)
  /\ call.ret # z_values[1][0]

----------------------------------------------------------------------------
(* C5 *)

IsCellIndexX == call.op = "get_cell_index_x"
IsCellIndexY == call.op = "get_cell_index_y"

\* C5 as stated: the cell index is floor((pos - MESH_MIN) / MESH_DIST) clamped into
\* [0, GRID_MAX_POINTS-2]; stated here on the positions whose quotient, cut to an
\* integer, fits int8_t (the positions beyond are the subject of C6).
C5_ClampedBelowLastLine ==
  /\ (IsCellIndexX /\ FitsInt8(Trunc(QuotX(call.x)))) =>
       call.reti = Clamp(Floor(QuotX(call.x)), 0, GRID_MAX_POINTS_X - 2)
  /\ (IsCellIndexY /\ FitsInt8(Trunc(QuotY(call.y)))) =>
       call.reti = Clamp(Floor(QuotY(call.y)), 0, GRID_MAX_POINTS_Y - 2)

\* C5 (amended): the cell index always lies in [0, GRID_MAX_POINTS-1], and it is
\* floor((pos - MESH_MIN) / MESH_DIST) clamped into [0, GRID_MAX_POINTS-1] for every
\* position whose quotient, cut to an integer, fits int8_t.
C5_ClampedToLastLine ==
  /\ IsCellIndexX =>
       /\ call.reti \in 0..(GRID_MAX_POINTS_X - 1)
       /\ FitsInt8(Trunc(QuotX(call.x))) =>
            call.reti = Clamp(Floor(QuotX(call.x)), 0, GRID_MAX_POINTS_X - 1)
  /\ IsCellIndexY =>
       /\ call.reti \in 0..(GRID_MAX_POINTS_Y - 1)
       /\ FitsInt8(Trunc(QuotY(call.y))) =>
            call.reti = Clamp(Floor(QuotY(call.y)), 0, GRID_MAX_POINTS_Y - 1)

\* the position MESH_MAX_X gave the index of the last grid line
C5_Witness ==
  /\ IsCellIndexX
  /\ call.x = F(MESH_MAX_X)
  /\ call.reti = GRID_MAX_POINTS_X - 1

----------------------------------------------------------------------------
(* C6 *)

\* C6: a position below MESH_MIN gives the lowest cell index and a position above
\* MESH_MAX gives the highest one (GRID_MAX_POINTS-2, or GRID_MAX_POINTS-1 which the
\* code also returns), however far outside the position is.
C6_OutsideGivesBoundaryCell ==
  /\ IsCellIndexX =>
       /\ FLess(call.x, F(MESH_MIN_X)) => call.reti = 0
       /\ FLess(F(MESH_MAX_X), call.x) => call.reti >= GRID_MAX_POINTS_X - 2
  /\ IsCellIndexY =>
       /\ FLess(call.y, F(MESH_MIN_Y)) => call.reti = 0
       /\ FLess(F(MESH_MAX_Y), call.y) => call.reti >= GRID_MAX_POINTS_Y - 2

----------------------------------------------------------------------------
(* C7 *)

IsClosestX == call.op = "find_closest_x_index"
IsClosestY == call.op = "find_closest_y_index"

\* C7: find_closest_?_index returns floor((pos - MESH_MIN + MESH_DIST/2) / MESH_DIST)
\* when that lies in [0, GRID_MAX_POINTS-1] and -1 otherwise.
C7_NearestLineOrMinusOne ==
  /\ IsClosestX =>
       call.reti = IF Floor(RoundQuotX(call.x)) \in XIndex
                   THEN Floor(RoundQuotX(call.x)) ELSE -1
  /\ IsClosestY =>
       call.reti = IF Floor(RoundQuotY(call.y)) \in YIndex
                   THEN Floor(RoundQuotY(call.y)) ELSE -1

----------------------------------------------------------------------------
(* C8 *)

\* C8: for every valid index i, find_closest_?_index at the position of grid line i
\* returns i, and the position of the line it returns is the position asked.
C8_RoundTrip ==
  /\ IsClosestX =>
       \A i \in XIndex :
         call.x = mesh_index_to_xpos(i) =>
           call.reti = i /\ mesh_index_to_xpos(call.reti) = call.x
  /\ IsClosestY =>
       \A j \in YIndex :
         call.y = mesh_index_to_ypos(j) =>
           call.reti = j /\ mesh_index_to_ypos(call.reti) = call.y

\* the position of the last X grid line was asked and its index came back
C8_Witness ==
  /\ IsClosestX
  /\ call.x = mesh_index_to_xpos(GRID_MAX_POINTS_X - 1)
  /\ call.reti = GRID_MAX_POINTS_X - 1

----------------------------------------------------------------------------
(* C9 *)

----------------------------------------------------------------------------
(* C10 *)

IsMeshIsValid == call.op = "mesh_is_valid"

\* C10 as stated: with every mesh point undefined, mesh_is_valid() is false and
\* get_z_correction returns 0.0 at every position, in every build configuration.
C10_AllUndefinedZeroEverywhere ==
  AllUndefined =>
    /\ IsMeshIsValid => call.retb = FALSE
    /\ IsGetZ => call.ret = F(0)

\* C10 (amended): with every mesh point undefined, mesh_is_valid() is false and
\* get_z_correction returns 0.0 at every position on the mesh, and off the mesh when
\* UBL_Z_RAISE_WHEN_OFF_MESH is not defined; when it is defined, get_z_correction
\* returns the raise value at every position off the mesh.
C10_AllUndefinedZeroOrRaise ==
  AllUndefined =>
    /\ IsMeshIsValid => call.retb = FALSE
    /\ IsGetZ =>
         call.ret = IF raise_defined /\ (OffMeshX(call.x) \/ OffMeshY(call.y))
                    THEN UBL_Z_RAISE_WHEN_OFF_MESH ELSE F(0)

\* every point undefined, no raise value configured, and an off-mesh query gave 0.0
C10_Witness ==
  /\ AllUndefined
  /\ IsGetZ
  /\ ~raise_defined
  /\ OffMeshX(call.x)
  /\ call.ret = F(0)

----------------------------------------------------------------------------
(* C11 *)

\* C11: after any sequence of set_z writes, mesh_is_valid() returns true exactly
\* when every mesh point currently holds a defined value.
C11_ValidIffAllDefined ==
  IsMeshIsValid =>
    (call.retb <=> \A i \in XIndex : \A j \in YIndex : Defined(i, j))

\* every point has been written with a defined value and mesh_is_valid() said true
C11_Witness ==
  /\ IsMeshIsValid
  /\ \A i \in XIndex : \A j \in YIndex : z_values[i][j] = MeasuredZ(i, j)
  /\ call.retb = TRUE

----------------------------------------------------------------------------
(* C12 *)

IsHelperX == call.op = "z_correction_for_x_on_horizontal_mesh_line"
IsHelperY == call.op = "z_correction_for_y_on_vertical_mesh_line"

IndexOffMesh == call.i \notin XIndex \/ call.j \notin YIndex

\* C12: with an index outside [0, GRID_MAX_POINTS-1] the single-axis helpers return
\* the raise value, or NaN when none is configured, and read no mesh point.
C12_OffMeshIndex ==
  ((IsHelperX \/ IsHelperY) /\ IndexOffMesh) =>
    /\ call.ret = IF raise_defined THEN UBL_Z_RAISE_WHEN_OFF_MESH ELSE NaN
    /\ reads = {}

\* no raise value configured, a mesh with defined points, x1_i one past the last
\* grid line: NaN came back
C12_Witness ==
  /\ IsHelperX
  /\ ~raise_defined
  /\ call.i = GRID_MAX_POINTS_X /\ call.j \in YIndex
  /\ Defined(GRID_MAX_POINTS_X - 1, call.j)
  /\ call.ret = NaN
  /\ reads = {}

----------------------------------------------------------------------------
(* C13 *)

\* the coordinate given to the helper, and the position get_z_correction is asked
\* for the same point of the mesh line
HelperCoord == IF IsHelperX THEN call.x ELSE call.y
HelperPosX == IF IsHelperX THEN call.x ELSE mesh_index_to_xpos(call.i)
HelperPosY == IF IsHelperX THEN mesh_index_to_ypos(call.j) ELSE call.y

\* the helper was given the index of the cell of its coordinate
HelperOnItsCell(conv) ==
  IF IsHelperX THEN call.i = get_cell_index_x(call.x, conv)
  ELSE call.j = get_cell_index_y(call.y, conv)

HelperGetsNaN ==
  /\ IsHelperX \/ IsHelperY
  /\ ~IndexOffMesh
  /\ ~AllDefined(reads) \/ isnan(HelperCoord)

----------------------------------------------------------------------------
(* C14 *)

IsIndexToXpos == call.op = "mesh_index_to_xpos"
IsIndexToYpos == call.op = "mesh_index_to_ypos"

NonZero(a) == IsFinite(a) /\ a[1] # 0

\* C14: mesh_index_to_?pos(i) is the table entry for i < GRID_MAX_POINTS and
\* MESH_MIN + i * MESH_DIST for i >= GRID_MAX_POINTS; the two line positions
\* get_z_correction passes to calc_z0 (index c and c + 1) differ by a non-zero
\* amount, also on the last grid line.
C14_IndexToPosition ==
  /\ IsIndexToXpos =>
       call.ret = IF call.i < GRID_MAX_POINTS_X THEN mesh_index_to_xpos_table(call.i)
                  ELSE FAdd(F(MESH_MIN_X), FMul(F(call.i), MESH_X_DIST))
  /\ IsIndexToYpos =>
       call.ret = IF call.j < GRID_MAX_POINTS_Y THEN mesh_index_to_ypos_table(call.j)
                  ELSE FAdd(F(MESH_MIN_Y), FMul(F(call.j), MESH_Y_DIST))
  /\ IsGetZ =>
       /\ NonZero(FSub(mesh_index_to_xpos(call.i + 1), mesh_index_to_xpos(call.i)))
       /\ NonZero(FSub(mesh_index_to_ypos(call.j + 1), mesh_index_to_ypos(call.j)))

\* a query on the last X grid line of a full mesh: the line positions passed to
\* calc_z0 are MESH_MAX_X and one cell further, and the stored value came back
C14_Witness ==
  /\ IsGetZ
  /\ mesh_is_valid
  /\ call.i = GRID_MAX_POINTS_X - 1
  /\ call.x = F(MESH_MAX_X) /\ call.y = F(MESH_MIN_Y)
  /\ mesh_index_to_xpos(call.i + 1) = FAdd(F(MESH_MAX_X), MESH_X_DIST)
  /\ call.ret = z_values[GRID_MAX_POINTS_X - 1][0]

----------------------------------------------------------------------------
(* C15 *)

\* get_z_correction at a position whose quotients fit int8_t
GetZAt(x, y) == get_z_correction(x, y, raise_defined, "wrap")

FitsX(x) == FitsInt8(Trunc(QuotX(x)))
FitsY(y) == FitsInt8(Trunc(QuotY(y)))

ClampX(x) ==
  IF FLess(x, F(MESH_MIN_X)) THEN F(MESH_MIN_X)
  ELSE IF FLess(F(MESH_MAX_X), x) THEN F(MESH_MAX_X) ELSE x

ClampY(y) ==
  IF FLess(y, F(MESH_MIN_Y)) THEN F(MESH_MIN_Y)
  ELSE IF FLess(F(MESH_MAX_Y), y) THEN F(MESH_MAX_Y) ELSE y

FullMeshNoRaise == IsGetZ /\ ~raise_defined /\ mesh_is_valid

----------------------------------------------------------------------------
(* C16 *)

IsG28(c) == c.op = "G28"

\* a G28 command is taken from the queue and runs to its return
G28Step == g28_call = G28Idle /\ IsG28(g28_call')

\* C16: a G28 with the O parameter, arriving while no axis needs homing, makes no
\* call at all (no homing, no move, no set_bed_leveling_enabled) and leaves the
\* homed axes, the leveling flag, the active tool, the feedrate scaling, the
\* endstops' enable state and the planner's acceleration and jerk as they were.
C16_SkippedG28HasNoEffect ==
  [][(G28Step /\ g28_call'.O /\ axis_homed = Axes) =>
       (log' = <<>> /\ UNCHANGED machine_vars)]_vars

\* a G28 O returned at once on a machine with every axis homed, leveling active,
\* tool 1 selected and the feedrate scaled
C16_Witness ==
  /\ IsG28(g28_call)
  /\ g28_call.O
  /\ log = <<>>
  /\ axis_homed = Axes
  /\ leveling_active
  /\ active_extruder = 1
  /\ feedrate_percentage = 50
  /\ ~endstops_enabled
  /\ planner_settings = NormalSettings

----------------------------------------------------------------------------
(* C17 *)

\* the axes named by the X, Y, Z parameters of command c
Named(c) == {a \in Axes : c[a]}

\* the axes the command selects: all of them with always_home_all, with no axis
\* named or with the three named, the named ones otherwise
Selected(c) ==
  IF c.always_home_all \/ Named(c) = {} \/ Named(c) = Axes THEN Axes ELSE Named(c)

\* the axis CODEPENDENT_XY_HOMING adds: the one homed first, when the other is selected
Codependent(c) ==
  IF ~config.CODEPENDENT_XY_HOMING THEN {}
  ELSE IF config.HOME_Y_BEFORE_X
       THEN (IF "X" \in Selected(c) THEN {"Y"} ELSE {})
       ELSE (IF "Y" \in Selected(c) THEN {"X"} ELSE {})

\* the axes homeaxis was called for
HomedAxes(l) == {l[k].arg : k \in {n \in 1..Len(l) : l[n].op = "homeaxis"}}

\* a non-delta G28 that was not skipped by its O parameter
HomingG28 == IsG28(g28_call) /\ log # <<>> /\ ~config.DELTA

\* C17 as stated: a non-delta G28 homes every axis when always_home_all is set, when
\* none of X, Y, Z is given or when all three are; otherwise exactly the named axes,
\* plus the axis CODEPENDENT_XY_HOMING adds.
C17_SelectedAxesHomed ==
  HomingG28 => HomedAxes(log) = Selected(g28_call) \cup Codependent(g28_call)

\* home_z_safely refuses: X or Y of unknown position when it is reached, or the
\* safe homing point out of reach
ZRefused(known_on_entry, c) ==
  /\ config.Z_HOME_DIR < 0 /\ config.Z_SAFE_HOMING
  /\ \/ ~({"X", "Y"} \subseteq (known_on_entry \cup Selected(c) \cup Codependent(c)))
     \/ ~config.position_is_reachable

\* C17 (amended): the selection is as stated and X and Y are homed exactly when
\* selected or added by CODEPENDENT_XY_HOMING; Z is homed exactly when selected and
\* not refused by home_z_safely (Z_SAFE_HOMING with Z homing to the bed: X or Y
\* position unknown or safe point unreachable); with DUAL_X_CARRIAGE in duplication
\* mode X is homed by every G28, selected or not.
C17_SelectedAxesHomedUnlessRefused ==
  [][(G28Step /\ log' # <<>> /\ ~config.DELTA) =>
       HomedAxes(log') =
         ((Selected(g28_call') \cup Codependent(g28_call'))
            \ (IF ZRefused(axis_known_position, g28_call') THEN {"Z"} ELSE {}))
         \cup (IF config.DUAL_X_CARRIAGE /\ config.dxc_is_duplicating THEN {"X"} ELSE {})]_vars

\* G28 X on a machine with nothing homed: X alone was homed, Y and Z were not
C17_Witness ==
  /\ HomingG28
  /\ Named(g28_call) = {"X"} /\ ~g28_call.always_home_all
  /\ ~config.CODEPENDENT_XY_HOMING
  /\ HomedAxes(log) = {"X"}
  /\ axis_homed = {"X"}

----------------------------------------------------------------------------
(* C18 *)

\* a helper call with in-range indices, a coordinate inside the mesh span, the
\* index of the cell of that coordinate, and both points it reads defined
HelperOnDefinedLine ==
  /\ IsHelperX \/ IsHelperY
  /\ ~IndexOffMesh
  /\ ~isnan(HelperCoord)
  /\ ~OffMeshX(HelperPosX) /\ ~OffMeshY(HelperPosY)
  /\ HelperOnItsCell("wrap")
  /\ AllDefined(reads)

\* C18 as stated: under these conditions the helper's result equals
\* get_z_correction at the same point of the mesh line.
C18_HelperEqualsGetZ ==
  HelperOnDefinedLine => call.ret = GetZAt(HelperPosX, HelperPosY)

\* C18 (amended): the helper's result equals get_z_correction at the same point when
\* the four points of the cell (x1_i, yi) are defined; when a point of the cell on
\* the next mesh line is undefined, get_z_correction returns 0.0 and the helper the
\* interpolation along its line.
C18_HelperEqualsGetZOnDefinedCell ==
  HelperOnDefinedLine =>
    /\ GetZAt(HelperPosX, HelperPosY) =
         IF AllDefined(CellPoints(call.i, call.j)) THEN call.ret ELSE F(0)
    /\ ~isnan(call.ret)

\* the vertical helper, mid-cell on a column whose cell is defined, on a mesh that
\* is not full: its result is the one of get_z_correction and no stored value
C18_Witness ==
  /\ IsHelperY
  /\ HelperOnDefinedLine
  /\ ~mesh_is_valid
  /\ AllDefined(CellPoints(call.i, call.j))
  /\ call.y = QuarterY(1)
  /\ call.ret = GetZAt(HelperPosX, HelperPosY)
  /\ call.ret # z_values[call.i][call.j]

----------------------------------------------------------------------------
(* C19 *)

\* C19: every z_values element read by get_z_correction, at any finite position,
\* and by the single-axis helpers, with any in-range index pair, lies inside the
\* array; get_z_correction reads the four elements of the cell it selected and a
\* helper its point and the next one.
C19_ReadsInsideArray ==
  /\ (IsGetZ \/ IsHelperX \/ IsHelperY) => reads \subseteq (XIndex \X YIndex)
  /\ (IsGetZ /\ ~Raised) =>
       {<<call.i, call.j>>, <<NextLineX(call.i), NextLineY(call.j)>>} \subseteq reads
  /\ (IsHelperX /\ ~IndexOffMesh) =>
       reads = {<<call.i, call.j>>, <<NextLineX(call.i), call.j>>}
  /\ (IsHelperY /\ ~IndexOffMesh) =>
       reads = {<<call.i, call.j>>, <<call.i, NextLineY(call.j)>>}

\* a query beyond MESH_MAX on both axes selected the last grid lines and read the
\* last element of the array only
C19_Witness ==
  /\ IsGetZ
  /\ ~raise_defined
  /\ FLess(F(MESH_MAX_X), call.x) /\ FLess(F(MESH_MAX_Y), call.y)
  /\ reads = {<<GRID_MAX_POINTS_X - 1, GRID_MAX_POINTS_Y - 1>>}

----------------------------------------------------------------------------
(* C20 *)

\* C20: with no raise value and a full mesh, for x < MESH_MIN_X the result continues
\* the first cell's line with the negative ratio (x - MESH_MIN_X) / MESH_X_DIST, and
\* for x >= MESH_MAX_X the cell index is GRID_MAX_POINTS_X-1 and the result does not
\* depend on x.
C20_EdgeAsymmetry ==
  (FullMeshNoRaise /\ FitsY(call.y)) =>
    /\ FLess(call.x, F(MESH_MIN_X)) =>
         /\ call.i = 0
         /\ call.ret = FAdd(GetZAt(XLine(0), call.y),
                            FMul(FSub(GetZAt(XLine(1), call.y), GetZAt(XLine(0), call.y)),
                                 QuotX(call.x)))
    /\ FLessEq(F(MESH_MAX_X), call.x) =>
         /\ call.i = GRID_MAX_POINTS_X - 1
         /\ call.ret = GetZAt(F(MESH_MAX_X), call.y)

\* C20 on the positions whose quotient fits int8_t
C20_EdgeAsymmetryInInt8 == (IsGetZ /\ FitsX(call.x)) => C20_EdgeAsymmetry

----------------------------------------------------------------------------
(* C21 *)

\* the positions in log l of the calls of op with argument arg
Calls(l, op, arg) == {k \in 1..Len(l) : l[k].op = op /\ l[k].arg = arg}

\* the Z moves of a G28: do_blocking_move_to_z is called for the pre-homing raise only
ZMoves(l) == Calls(l, "do_blocking_move_to_z", "")

\* the moves that take X or Y to an endstop
XYHomingMoves(l) ==
  Calls(l, "homeaxis", "X") \cup Calls(l, "homeaxis", "Y")
    \cup Calls(l, "do_blocking_move_to_xy", "quick_home_xy")

\* Z was homed first, right after set_destination_from_current (Z_HOME_DIR > 0)
ZHomedFirst(l) ==
  \E k \in Calls(l, "set_destination_from_current", "") :
    k < Len(l) /\ l[k + 1].op = "homeaxis" /\ l[k + 1].arg = "Z"

\* current_position[Z_AXIS] when the raise is decided
ZAtRaise(l) ==
  LET k == CHOOSE n \in Calls(l, "set_destination_from_current", "") : TRUE
  IN  IF ZHomedFirst(l) THEN l[k + 1].current_z ELSE l[k].current_z

\* the homing height that applies to command c: none under UNKNOWN_Z_NO_RAISE while
\* the Z position is unknown, else the R parameter, else Z_HOMING_HEIGHT
HomingHeight(c, z_known) ==
  IF config.UNKNOWN_Z_NO_RAISE /\ ~z_known THEN 0
  ELSE IF c.R # NoR THEN c.R ELSE Z_HOMING_HEIGHT

\* C21: a G28 issues its pre-homing Z move exactly when a non-zero homing height
\* applies, X or Y is to be homed and the height is strictly greater than the current
\* Z; the move goes to that height, never down, and comes before every X or Y
\* homing move.
C21_RaiseOnlyUpBeforeXY ==
  [][(G28Step /\ log' # <<>>) =>
       LET l == log'
           c == g28_call'
           h == HomingHeight(c, "Z" \in axis_known_position \/ ZHomedFirst(l))
       IN  /\ Cardinality(ZMoves(l)) <= 1
           /\ (ZMoves(l) # {}) <=>
                /\ ~config.DELTA
                /\ h # 0
                /\ Selected(c) \cap {"X", "Y"} # {}
                /\ h > ZAtRaise(l)
           /\ \A k \in ZMoves(l) :
                /\ l[k].current_z = h
                /\ l[k].current_z > l[k - 1].current_z
                /\ \A n \in XYHomingMoves(l) : k < n]_vars

\* a G28 with R20 arriving at Z = 15 raised Z to 20 and then homed X
C21_Witness ==
  /\ IsG28(g28_call)
  /\ g28_call.R = 20
  /\ \E k \in ZMoves(log) :
       /\ log[k - 1].current_z = 15
       /\ log[k].current_z = 20
       /\ \E n \in Calls(log, "homeaxis", "X") : k < n

----------------------------------------------------------------------------
(* C22 *)

ZHomings(l) == Calls(l, "homeaxis", "Z")

\* the second homing of X that DUAL_X_CARRIAGE in a duplication mode adds at the end
\* of G28: the two homeaxis(X_AXIS) before stepper.set_directions()
DuplicationHoming(l) ==
  {k \in Calls(l, "homeaxis", "X") :
     \E d \in Calls(l, "stepper.set_directions", "") : k \in {d - 2, d - 1}}

\* the order of the homing moves among the moves xy that take X or Y to an endstop
HomingOrder(l, xy) ==
  /\ config.Z_HOME_DIR < 0 =>
       \A z \in ZHomings(l) : \A n \in xy : n < z
  /\ config.Z_HOME_DIR > 0 =>
       \A z \in ZHomings(l) : \A n \in xy \cup ZMoves(l) : z < n
  /\ \A x \in Calls(l, "homeaxis", "X") \cap xy : \A y \in Calls(l, "homeaxis", "Y") :
       IF config.HOME_Y_BEFORE_X THEN y < x ELSE x < y
  /\ \A q \in Calls(l, "do_blocking_move_to_xy", "quick_home_xy") :
       \A n \in (Calls(l, "homeaxis", "X") \cap xy) \cup Calls(l, "homeaxis", "Y") : q < n

\* C22 as stated: in a non-delta G28, with Z_HOME_DIR < 0 Z is homed after every X and
\* Y homing, quick_home_xy included; with Z_HOME_DIR > 0 Z is homed before the Z raise
\* and before any X or Y homing; X is homed before Y, or Y before X with
\* HOME_Y_BEFORE_X.
C22_HomingOrder ==
  HomingG28 => HomingOrder(log, XYHomingMoves(log))

\* C22 (amended): the order holds for the homing of the selected axes; with
\* DUAL_X_CARRIAGE in a duplication mode X is homed once more, both carriages, at the
\* end of G28, after the Y and Z homing.
C22_HomingOrderButDuplication ==
  HomingG28 =>
    /\ HomingOrder(log, XYHomingMoves(log) \ DuplicationHoming(log))
    /\ (DuplicationHoming(log) # {}) <=> (config.DUAL_X_CARRIAGE /\ config.dxc_is_duplicating)
    /\ \A k \in DuplicationHoming(log) :
         \A n \in (XYHomingMoves(log) \ DuplicationHoming(log)) \cup ZHomings(log) : n < k

\* a G28 of the three axes with QUICK_HOME, Z homing to the bed: the diagonal move,
\* then X, then Y, then Z
C22_Witness ==
  /\ HomingG28
  /\ config.Z_HOME_DIR < 0 /\ ~config.HOME_Y_BEFORE_X
  /\ \E q \in Calls(log, "do_blocking_move_to_xy", "quick_home_xy") :
     \E x \in Calls(log, "homeaxis", "X") :
     \E y \in Calls(log, "homeaxis", "Y") :
     \E z \in ZHomings(log) : q < x /\ x < y /\ y < z

----------------------------------------------------------------------------
(* C23 *)

\* the moves that take an axis to its endstop
HomingMoves(l) ==
  XYHomingMoves(l) \cup ZHomings(l) \cup Calls(l, "home_delta", "")

\* C23: in a G28 that is not skipped, planner.synchronize() and then
\* set_bed_leveling_enabled(false) come before the first homing move, leveling is
\* inactive at every homing move, and on return the leveling flag has its value of
\* entry with RESTORE_LEVELING_AFTER_G28 and is false without it.
C23_LevelingOffWhileHoming ==
  [][(G28Step /\ log' # <<>>) =>
       LET l == log'
       IN  /\ l[1].op = "planner.synchronize"
           /\ l[2].op = "set_bed_leveling_enabled" /\ l[2].arg = "false"
           /\ \A k \in HomingMoves(l) : k > 2 /\ ~l[k].leveling_active
           /\ \A k \in 2..Len(l) :
                l[k].leveling_active => HomingMoves(l) \cap k..Len(l) = {}
           /\ leveling_active' =
                IF config.RESTORE_LEVELING_AFTER_G28 THEN leveling_active ELSE FALSE]_vars

\* RESTORE_LEVELING_AFTER_G28, leveling active on entry: the axes were homed with
\* leveling inactive and it is active again on return
C23_Witness ==
  /\ IsG28(g28_call)
  /\ config.RESTORE_LEVELING_AFTER_G28
  /\ leveling_active
  /\ log # <<>>
  /\ log[1].leveling_active
  /\ HomingMoves(log) # {}
  /\ \A k \in HomingMoves(log) : ~log[k].leveling_active
  /\ \E k \in Calls(log, "set_bed_leveling_enabled", "true") :
       \A n \in HomingMoves(log) : n < k

----------------------------------------------------------------------------
(* C24 *)

\* the blocking XY move of home_z_safely to the safe homing point
SafePointMoves(l) == Calls(l, "do_blocking_move_to_xy", "home_z_safely")

\* command c reaches home_z_safely: Z selected, in a build with Z_SAFE_HOMING that
\* homes Z to the bed
CallsHomeZSafely(c) ==
  /\ ~config.DELTA /\ config.Z_SAFE_HOMING /\ config.Z_HOME_DIR < 0
  /\ "Z" \in Selected(c)

\* the X and the Y position are known when home_z_safely is reached: known on entry
\* of G28 or homed by it before
XYKnown(known_on_entry, c) ==
  {"X", "Y"} \subseteq (known_on_entry \cup Selected(c) \cup Codependent(c))

\* home_z_safely returned on error message msg: nothing follows the message but the
\* sync_plan_position that ends the homing of G28; no move to the safe point, no Z
\* homing
Refuses(l, msg) ==
  /\ \E e \in Calls(l, "SERIAL_ECHO_MSG", msg) : l[e + 1].op = "sync_plan_position"
  /\ SafePointMoves(l) = {}
  /\ ZHomings(l) = {}

\* C24: home_z_safely, with the X or the Y position unknown, reports MSG_ERR_Z_HOMING
\* and makes no move and no Z homing; with the safe homing point out of reach it
\* reports MSG_ZPROBE_OUT and makes no move and no Z homing; otherwise it homes Z
\* right after the blocking XY move to the safe point, and reports nothing.
C24_ZHomedFromSafePointOnly ==
  [][(G28Step /\ log' # <<>> /\ CallsHomeZSafely(g28_call')) =>
       LET l == log'
       IN  IF ~XYKnown(axis_known_position, g28_call')
           THEN Refuses(l, "MSG_ERR_Z_HOMING") /\ "Z" \notin axis_homed' \ axis_homed
           ELSE IF ~config.position_is_reachable
           THEN Refuses(l, "MSG_ZPROBE_OUT") /\ "Z" \notin axis_homed' \ axis_homed
           ELSE /\ Cardinality(ZHomings(l)) = 1
                /\ \A z \in ZHomings(l) : SafePointMoves(l) = {z - 1}
                /\ Calls(l, "SERIAL_ECHO_MSG", "MSG_ERR_Z_HOMING") = {}
                /\ Calls(l, "SERIAL_ECHO_MSG", "MSG_ZPROBE_OUT") = {}]_vars

\* G28 Z with the X position unknown: the error was reported, no move was made and Z
\* is not homed
C24_Witness ==
  /\ IsG28(g28_call)
  /\ CallsHomeZSafely(g28_call)
  /\ Named(g28_call) = {"Z"} /\ ~g28_call.always_home_all
  /\ "X" \notin axis_known_position
  /\ Refuses(log, "MSG_ERR_Z_HOMING")
  /\ XYHomingMoves(log) = {}
  /\ "Z" \notin axis_homed

============================================================================
